---- MODULE Spec2Model ----
(***************************************************************************)
(* UserModel (app/database/models/ms_schema/user.py): the users table, the *)
(* Python objects mapped to it and the ambient db.session they are saved   *)
(* and deleted through.                                                    *)
(*                                                                         *)
(* The store is the committed content of the tables.  A UserModel object   *)
(* is transient after construction, pending once added to the session,     *)
(* persistent once its INSERT is committed and deleted once its DELETE is  *)
(* committed; a deleted object can be deleted again, which removes no row. *)
(* save_to_db and delete_from_db commit at once, so a pending              *)
(* object outlives a call only when the commit raised.  A commit whose     *)
(* flush raises rolls the transaction back and leaves the session          *)
(* inactive: the file never calls db.session.rollback(), so from then on   *)
(* every commit and every query of that session raises.                    *)
(*                                                                         *)
(* A commit and a rollback expire the persistent objects: their attributes *)
(* are unloaded, and the next read of one refreshes it from its row        *)
(* through the session, which raises when the session is inactive.  The    *)
(* username, email, id and is_admin kept in an object's record identify    *)
(* the object; what the program reads goes through check_password and json.*)
(***************************************************************************)
EXTENDS Integers, FiniteSets, Sequences, TLC

\* ---- bounds
MaxObjs == 2

Objs == 1..MaxObjs
OrgIds == {1}
Usernames == {"ann", "bob"}
Emails == {"ann@x", "bob@x"}
OrgNames == {"acme"}
\* the accounts registered in the runs about the related records
Accounts == {<<"ann", "ann@x">>, <<"bob", "bob@x">>}
\* plaintext passwords and the salts generate_password_hash draws
Plain == {1, 2}
Salts == {1, 2}
\* the salts drawn in the runs that also save and delete
StoreSalts == {1}
\* the plaintexts given to the constructor in the runs that also save and delete
InitPlain == {1}
\* the plaintexts of the resets in those runs: a password other than the first
ResetPlain == Plain \ InitPlain

\* Python None in an integer column (id, rep_id) and as a lookup result
NoId == 0
\* Python None in a non-integer attribute
PyNone == [type |-> "NoneType"]

VARIABLES
  objs,         \* the UserModel objects built so far and their attributes
  db,           \* committed rows of public.users
  session,      \* state of db.session's transaction: "active" | "inactive"
  nextId,       \* next value of the users id sequence
  backgrounds,  \* user_id of every committed PersonalBackground row
  extensions,   \* user_id of every committed UserExtension row
  orgs,         \* committed Organization rows, by organization id
  lastPlain,    \* history: the plaintext last given to set_password, per object
  result        \* what the last call returned or raised

vars == <<objs, db, session, nextId, backgrounds, extensions, orgs, lastPlain, result>>

\* ---- columns of the users table
Columns ==
  {"id", "name", "username", "email", "password_hash", "registration_date",
   "terms_and_conditions_checked", "is_admin", "is_email_verified",
   "email_verification_date", "current_mentorship_role", "membership_status",
   "bio", "location", "occupation", "current_organization", "slack_username",
   "social_media_links", "skills", "interests", "resume_url", "photo_url",
   "need_mentoring", "available_to_mentor"}

\* ---- werkzeug.security, on the bounded domain: a salted one-way digest.
\* The digest is injective in the plaintext for a fixed salt, as PBKDF2 is up to
\* collisions, and differs between salts.
Digest(salt, p) == (31 * salt + 7 * p) % 61

generate_password_hash(p, salt) ==
  [method |-> "pbkdf2:sha256", salt |-> salt, digest |-> Digest(salt, p)]

check_password_hash(h, p) == h.digest = Digest(h.salt, p)

NoHash == [method |-> "", salt |-> 0, digest |-> 0]

\* ---- objects
Blank ==
  [st |-> "none", id |-> NoId, username |-> "", email |-> "",
   password_hash |-> NoHash, is_admin |-> FALSE, current_organization |-> PyNone,
   expired |-> FALSE, loaded_organization |-> NoId]

Built == {o \in Objs : objs[o].st # "none"}
Persistent == {o \in Objs : objs[o].st = "persistent"}

\* the row an object is flushed to
RowOf(u) ==
  [id |-> u.id, username |-> u.username, email |-> u.email,
   password_hash |-> u.password_hash, is_admin |-> u.is_admin,
   current_organization |-> u.current_organization]

RowById(i) == CHOOSE r \in db : r.id = i

\* what a call did: the operation, the object it was called on, how it ended,
\* and what its commit wrote for that object ("insert", "update", or "delete"
\* for a row that was removed, with the relationships of the deleted user that
\* held a record)
Ret(op, obj, outcome, wrote) ==
  [op |-> op, obj |-> obj, outcome |-> outcome, wrote |-> wrote]

\* what a query returned or raised
Returned(v) == [outcome |-> "ok", value |-> v]
Raised(e) == [outcome |-> e, value |-> NoId]

set_password_noop(u, p, salt) == u

\* set_password: hash and store; the assignment loads the attribute
set_password(u, p, salt) ==
  [u EXCEPT !.password_hash = generate_password_hash(p, salt), !.expired = FALSE]

\* self.password_hash, read on an object that was not deleted: an expired
\* attribute is refreshed from the row, and that raises on an inactive session
attr_password_hash(u) ==
  IF ~u.expired THEN Returned(u.password_hash)
  ELSE IF session = "active" THEN Returned(RowById(u.id).password_hash)
  ELSE Raised("InvalidRequestError")

\* check_password: hash-compare against the stored hash
check_password(u, p) ==
  LET h == attr_password_hash(u)
  IN IF h.outcome = "ok" THEN Returned(check_password_hash(h.value, p)) ELSE h

\* is_empty: cls.query.first() is None
is_empty == db = {}

Init ==
  /\ objs = [o \in Objs |-> Blank]
  /\ db = {}
  /\ session = "active"
  /\ nextId = 1
  /\ backgrounds = {}
  /\ extensions = {}
  /\ orgs = [k \in OrgIds |-> [exists |-> FALSE, name |-> "", rep_id |-> NoId]]
  /\ lastPlain = [o \in Objs |-> 0]
  /\ result = Ret("none", NoId, "ok", {})

\* UserModel(name, username, password, email, terms): the next object is built.
\* set_password runs first; is_empty() then queries through the session, and
\* raises when the session is inactive, so no object results.
UserModel_init(username, email, password, salt) ==
  /\ Built # Objs
  /\ LET o == CHOOSE x \in Objs \ Built : \A y \in Objs \ Built : x <= y
         u == set_password([Blank EXCEPT !.username = username, !.email = email],
                           password, salt)
     IN IF session = "inactive"
        THEN /\ result' = Ret("init", NoId, "InvalidRequestError", {})
             /\ UNCHANGED <<objs, lastPlain>>
        ELSE /\ objs' = [objs EXCEPT ![o] =
                           [u EXCEPT !.st = "transient", !.is_admin = is_empty]]
             /\ lastPlain' = [lastPlain EXCEPT ![o] = password]
             /\ result' = Ret("init", o, "ok", {})
  /\ UNCHANGED <<db, session, nextId, backgrounds, extensions, orgs>>

\* user.set_password(p): an attribute assignment, no session access
SetPassword(o, p, salt) ==
  /\ objs[o].st \in {"transient", "pending", "persistent"}
  /\ objs' = [objs EXCEPT ![o] = set_password(objs[o], p, salt)]
  /\ lastPlain' = [lastPlain EXCEPT ![o] = p]
  /\ result' = Ret("set_password", o, "ok", {})
  /\ UNCHANGED <<db, session, nextId, backgrounds, extensions, orgs>>

\* ---- the session

\* Session.commit() on a session whose flush raised earlier raises again
\* (InvalidRequestError: first issue Session.rollback()); so does a query.
SessionUsable == session = "active"

\* unique=True on username and on email: the INSERT of row r is accepted
unique_unchecked(r) == TRUE

unique_ok(r) ==
  \A q \in db : q.id # r.id => (q.username # r.username /\ q.email # r.email)

FlushedRows_stale(os) == db

\* what a flush writes for the objects already persistent: the attributes
\* assigned since they were last expired
FlushedRows(os) ==
  {IF os[o].expired THEN RowById(os[o].id) ELSE RowOf(os[o]) :
     o \in {x \in Objs : os[x].st = "persistent"}}

\* the end of a transaction, commit or rollback, expires every persistent
\* object: its password_hash is unloaded
Expired(os) ==
  [o \in Objs |->
     IF os[o].st = "persistent"
     THEN [os[o] EXCEPT !.password_hash = NoHash, !.expired = TRUE]
     ELSE os[o]]

\* save_to_db: db.session.add(self); db.session.commit()
save_to_db(o) ==
  /\ objs[o].st # "none"
  /\ IF objs[o].st = "deleted"
     THEN \* add() refuses an instance that has been deleted
          /\ result' = Ret("save_to_db", o, "InvalidRequestError", {})
          /\ UNCHANGED <<objs, db, session, nextId>>
     ELSE IF ~SessionUsable
     THEN \* add() makes a transient object pending; commit() raises
          /\ objs' = [objs EXCEPT ![o].st =
                        IF @ = "transient" THEN "pending" ELSE @]
          /\ result' = Ret("save_to_db", o, "InvalidRequestError", {})
          /\ UNCHANGED <<db, session, nextId>>
     ELSE IF objs[o].st = "persistent"
     THEN \* UPDATE of what changed, committed
          /\ db' = FlushedRows(objs)
          /\ objs' = Expired(objs)
          /\ result' = Ret("save_to_db", o, "ok",
                            IF objs[o].expired \/ RowOf(objs[o]) \in db
                            THEN {} ELSE {"update"})
          /\ UNCHANGED <<session, nextId>>
     ELSE LET r == RowOf([objs[o] EXCEPT !.id = nextId])
          IN /\ nextId' = nextId + 1
             /\ IF unique_ok(r)
                THEN \* INSERT, committed with every pending UPDATE
                     /\ objs' = Expired([objs EXCEPT ![o].st = "persistent",
                                                      ![o].id = nextId])
                     /\ db' = FlushedRows(objs) \cup {r}
                     /\ result' = Ret("save_to_db", o, "ok", {"insert"})
                     /\ UNCHANGED session
                ELSE \* the flush raises: the transaction is rolled back, the new
                     \* object expunged, and nobody rolls the session back
                     /\ objs' = Expired(objs)
                     /\ session' = "inactive"
                     /\ result' = Ret("save_to_db", o, "IntegrityError", {})
                     /\ UNCHANGED db
  /\ UNCHANGED <<backgrounds, extensions, orgs, lastPlain>>

\* ---- the relationships of a user (lines 64-83)

\* background: cascade="all,delete": the user's PersonalBackground goes with it
background_kept(uid) == backgrounds

background_cascade(uid) == backgrounds \ {uid}

\* user_extension: cascade="all,delete": the user's UserExtension goes with it
user_extension_kept(uid) == extensions

user_extension_cascade(uid) == extensions \ {uid}

\* organization: no delete cascade: the Organization k that the deleted user's
\* organization attribute holds stays, its rep_id set to NULL
organization_deleted(k) ==
  [j \in OrgIds |->
     IF j = k THEN [exists |-> FALSE, name |-> "", rep_id |-> NoId] ELSE orgs[j]]

organization_deassociate(k) ==
  [j \in OrgIds |->
     IF j = k THEN [orgs[j] EXCEPT !.rep_id = NoId] ELSE orgs[j]]

\* self.organization: the Organization whose representative the user is, or None
organization(u) ==
  IF u.id # NoId /\ \E k \in OrgIds : orgs[k].exists /\ orgs[k].rep_id = u.id
  THEN [type |-> "OrganizationModel",
        id |-> CHOOSE k \in OrgIds : orgs[k].exists /\ orgs[k].rep_id = u.id]
  ELSE PyNone

\* the Organization the flush of a delete finds in self.organization, or None:
\* a persistent object's attribute was expired and is loaded from the table;
\* an object deleted before was not expired and still holds what the flush of
\* its first delete loaded, whoever represents that Organization now
HeldOrganization(u) ==
  IF u.st = "persistent"
  THEN IF organization(u) = PyNone THEN NoId ELSE organization(u).id
  ELSE u.loaded_organization

\* the relationships of u that hold a record
Attached(u) ==
  {n \in {"background"} : u.id \in backgrounds}
    \cup {n \in {"user_extension"} : u.id \in extensions}
    \cup {n \in {"organization"} : HeldOrganization(u) # NoId}

\* delete_from_db: db.session.delete(self); db.session.commit().
\* delete() refuses an object that has no identity yet.  It takes back an
\* object whose delete was committed before: the flush then issues a DELETE
\* that matches no row, which is a warning, and the commit succeeds; the
\* Organization the object still holds loses its representative again.
delete_from_db(o) ==
  /\ objs[o].st # "none"
  /\ IF objs[o].st \in {"transient", "pending"}
     THEN \* delete() refuses an instance that is not persisted
          /\ result' = Ret("delete_from_db", o, "InvalidRequestError", {})
          /\ UNCHANGED <<objs, db, backgrounds, extensions, orgs>>
     ELSE IF ~SessionUsable
     THEN /\ result' = Ret("delete_from_db", o, "InvalidRequestError", {})
          /\ UNCHANGED <<objs, db, backgrounds, extensions, orgs>>
     ELSE /\ objs' = Expired([objs EXCEPT
                               ![o].st = "deleted",
                               ![o].loaded_organization = HeldOrganization(objs[o])])
          /\ db' = {r \in FlushedRows(objs) : r.id # objs[o].id}
          /\ backgrounds' = background_cascade(objs[o].id)
          /\ extensions' = user_extension_cascade(objs[o].id)
          /\ orgs' = organization_deassociate(HeldOrganization(objs[o]))
          /\ result' = Ret("delete_from_db", o, "ok",
                            {n \in {"delete"} : objs[o].st = "persistent"}
                              \cup Attached(objs[o]))
  /\ UNCHANGED <<session, nextId, lastPlain>>

\* ---- the related models, saved through the same session

\* PersonalBackgroundModel(user_id = user.id).save_to_db()
add_background(o) ==
  /\ SessionUsable
  /\ objs[o].st = "persistent"
  /\ objs[o].id \notin backgrounds
  /\ backgrounds' = backgrounds \cup {objs[o].id}
  /\ db' = FlushedRows(objs)
  /\ result' = Ret("add_background", o, "ok", {})
  /\ objs' = Expired(objs)
  /\ UNCHANGED <<session, nextId, extensions, orgs, lastPlain>>

\* UserExtensionModel(user_id = user.id).save_to_db()
add_extension(o) ==
  /\ SessionUsable
  /\ objs[o].st = "persistent"
  /\ objs[o].id \notin extensions
  /\ extensions' = extensions \cup {objs[o].id}
  /\ db' = FlushedRows(objs)
  /\ result' = Ret("add_extension", o, "ok", {})
  /\ objs' = Expired(objs)
  /\ UNCHANGED <<session, nextId, backgrounds, orgs, lastPlain>>

\* OrganizationModel(rep_id = user.id, name, ...).save_to_db(), or an existing
\* Organization without representative given user as its new one
appoint_representative(k, name, o) ==
  /\ SessionUsable
  /\ objs[o].st = "persistent"
  /\ \A j \in OrgIds : orgs[j].rep_id # objs[o].id
  /\ orgs[k].rep_id = NoId
  /\ orgs' = [orgs EXCEPT ![k] =
                [exists |-> TRUE,
                 name |-> IF orgs[k].exists THEN orgs[k].name ELSE name,
                 rep_id |-> objs[o].id]]
  /\ db' = FlushedRows(objs)
  /\ result' = Ret("appoint_representative", o, "ok", {})
  /\ objs' = Expired(objs)
  /\ UNCHANGED <<session, nextId, backgrounds, extensions, lastPlain>>

\* ---- queries

\* the object the session's identity map holds for a row
ObjOf(i) == CHOOSE o \in Objs : objs[o].st = "persistent" /\ objs[o].id = i

\* Query.first(): the first row, or None
first(rows) ==
  IF rows = {} THEN NoId
  ELSE ObjOf((CHOOSE r \in rows : \A q \in rows : r.id <= q.id).id)

\* cls.query.filter_by(col = val): raises for a name that is no attribute of the entity
filter_by(col, val) ==
  IF col \notin Columns THEN Raised("InvalidRequestError")
  ELSE IF ~SessionUsable THEN Raised("InvalidRequestError")
  ELSE Returned({r \in db : col \in DOMAIN r /\ r[col] = val})

find_by_username(username) ==
  LET q == filter_by("username", username)
  IN IF q.outcome = "ok" THEN Returned(first(q.value)) ELSE q

find_by_email(email) ==
  LET q == filter_by("email", email)
  IN IF q.outcome = "ok" THEN Returned(first(q.value)) ELSE q

find_by_id(i) ==
  LET q == filter_by("id", i)
  IN IF q.outcome = "ok" THEN Returned(first(q.value)) ELSE q

\* Query.all(): every row, as the set of its objects
all(q) == IF q.outcome = "ok" THEN Returned({ObjOf(r.id) : r \in q.value}) ELSE q

get_all_admins == all(filter_by("is_admin", TRUE))

get_all_representatives == all(filter_by("is_company_rep", TRUE))

\* json(), called on an object that was not deleted: the keys of the columns
\* modelled here; the other keys carry the attribute of their own name in the
\* same way.  A persistent object's attributes were expired by the last commit
\* or rollback, so the first read refreshes them through the session.
json(u) ==
  IF u.st = "persistent" /\ ~SessionUsable THEN Raised("InvalidRequestError")
  ELSE Returned(
         [id |-> u.id, username |-> u.username,
          password_hash |-> attr_password_hash(u).value,
          email |-> u.email, is_admin |-> u.is_admin,
          current_organization |-> organization(u)])

\* ---- specifications

\* the operations of UserModel on the store; the resets are those of the
\* persistent objects, whose rows they change
Next ==
  \/ \E u \in Usernames, e \in Emails, p \in InitPlain, s \in StoreSalts : UserModel_init(u, e, p, s)
  \/ \E o \in Persistent, p \in ResetPlain, s \in StoreSalts : SetPassword(o, p, s)
  \/ \E o \in Objs : save_to_db(o)
  \/ \E o \in Objs : delete_from_db(o)

Spec == Init /\ [][Next]_vars

\* users and the records related to them, one password
RelNext ==
  \/ \E a \in Accounts, p \in InitPlain, s \in StoreSalts : UserModel_init(a[1], a[2], p, s)
  \/ \E o \in Objs : save_to_db(o)
  \/ \E o \in Objs : delete_from_db(o)
  \/ \E o \in Objs : add_background(o)
  \/ \E o \in Objs : add_extension(o)
  \/ \E k \in OrgIds, n \in OrgNames, o \in Objs : appoint_representative(k, n, o)

RelSpec == Init /\ [][RelNext]_vars

\* construction and password resets only, every plaintext and every salt
PwNext ==
  \/ \E u \in Usernames, e \in Emails, p \in Plain, s \in Salts : UserModel_init(u, e, p, s)
  \/ \E o \in Objs, p \in Plain, s \in Salts : SetPassword(o, p, s)

PwSpec == Init /\ [][PwNext]_vars

\* ---- claims

Ids == {r.id : r \in db}

\* u's username or email is that of a different persisted user
Conflicts(u) ==
  \E q \in db : q.id # u.id /\ (q.username = u.username \/ q.email = u.email)

\* C1: no two distinct persisted users have the same username, and no two have
\* the same email.
C1_UniqueUsernameAndEmail ==
  \A r \in db : \A q \in db :
    r.id # q.id => (r.username # q.username /\ r.email # q.email)

\* a save was rejected for a conflict with a persisted user
C1_Witness ==
  /\ result.op = "save_to_db"
  /\ result.outcome = "IntegrityError"
  /\ Conflicts(objs[result.obj])

\* C2: the first user created is an administrator and no user created after it
\* is, whatever was saved or deleted in between.
C2_OnlyFirstUserIsAdmin ==
  \A o \in Built : objs[o].is_admin <=> (o = 1)

\* C3: check_password(p) is true exactly for the plaintext last given to
\* set_password (by the constructor or by a reset).
C3_PasswordVerifiesLastPlaintext ==
  \A o \in Built : \A p \in Plain :
    check_password(objs[o], p) = Returned(p = lastPlain[o])

\* a password was reset: the new plaintext verifies, the other does not
C3_Witness ==
  /\ result.op = "set_password"
  /\ check_password(objs[result.obj], 2) = Returned(TRUE)
  /\ check_password(objs[result.obj], 1) = Returned(FALSE)
  /\ objs[result.obj].password_hash.salt = 2

\* C4: every PersonalBackground and UserExtension record belongs to a persisted
\* user, and after a committed delete_from_db none of the deleted user remains.
C4_OwnedRecordsFollowUser ==
  /\ backgrounds \subseteq Ids
  /\ extensions \subseteq Ids
  /\ (result.op = "delete_from_db" /\ result.outcome = "ok")
       => objs[result.obj].id \notin (backgrounds \cup extensions)

\* a user holding a background and an extension was deleted
C4_Witness ==
  /\ result.op = "delete_from_db"
  /\ result.outcome = "ok"
  /\ {"background", "user_extension"} \subseteq result.wrote

C6_LookupsReturnUserOrNone ==
  /\ \A n \in Usernames :
       LET f == find_by_username(n)
       IN /\ f.outcome = "ok"
          /\ IF \E r \in db : r.username = n
             THEN f.value \in Persistent /\ objs[f.value].username = n
             ELSE f.value = NoId
  /\ \A e \in Emails :
       LET f == find_by_email(e)
       IN /\ f.outcome = "ok"
          /\ IF \E r \in db : r.email = e
             THEN f.value \in Persistent /\ objs[f.value].email = e
             ELSE f.value = NoId
  /\ \A i \in 1..(MaxObjs + 1) :
       LET f == find_by_id(i)
       IN /\ f.outcome = "ok"
          /\ IF i \in Ids
             THEN f.value \in Persistent /\ objs[f.value].id = i
             ELSE f.value = NoId

\* C7 as stated: after a committed save_to_db the user is persisted, has
\* exactly one row, which carries its attributes (its username, email and the
\* hash of the plaintext last set), and is what the three lookups on its keys
\* return; after a committed delete_from_db those lookups return None.
C7_SavedIsFoundDeletedIsNot ==
  LET u == objs[result.obj]
  IN /\ (result.op = "save_to_db" /\ result.outcome = "ok")
          => /\ u.st = "persistent"
             /\ \E r \in db :
                  /\ r.id = u.id /\ r.username = u.username /\ r.email = u.email
                  /\ check_password_hash(r.password_hash, lastPlain[result.obj])
             /\ check_password(u, lastPlain[result.obj]) = Returned(TRUE)
             /\ Cardinality({r \in db : r.id = u.id}) = 1
             /\ Cardinality(db) = Cardinality(Persistent)
             /\ find_by_username(u.username) = Returned(result.obj)
             /\ find_by_email(u.email) = Returned(result.obj)
             /\ find_by_id(u.id) = Returned(result.obj)
     /\ (result.op = "delete_from_db" /\ result.outcome = "ok")
          => /\ u.st = "deleted"
             /\ find_by_username(u.username) = Returned(NoId)
             /\ find_by_email(u.email) = Returned(NoId)
             /\ find_by_id(u.id) = Returned(NoId)

\* C7, amended: after a committed save_to_db the user is persisted, has exactly
\* one row, which carries its attributes, and is what the three lookups on its
\* keys return; after a committed delete_from_db the user has no row, the
\* lookup on its id returns None and no lookup returns that user; the lookups
\* on its username and email return None when the call removed the user's row,
\* and otherwise (the user was deleted before) None or the other persisted
\* user that has taken the username or email since.
C7_SavedIsFoundDeletedIsGone ==
  LET u == objs[result.obj]
  IN /\ (result.op = "save_to_db" /\ result.outcome = "ok")
          => /\ u.st = "persistent"
             /\ \E r \in db :
                  /\ r.id = u.id /\ r.username = u.username /\ r.email = u.email
                  /\ check_password_hash(r.password_hash, lastPlain[result.obj])
             /\ check_password(u, lastPlain[result.obj]) = Returned(TRUE)
             /\ Cardinality({r \in db : r.id = u.id}) = 1
             /\ Cardinality(db) = Cardinality(Persistent)
             /\ find_by_username(u.username) = Returned(result.obj)
             /\ find_by_email(u.email) = Returned(result.obj)
             /\ find_by_id(u.id) = Returned(result.obj)
     /\ (result.op = "delete_from_db" /\ result.outcome = "ok")
          => /\ u.st = "deleted"
             /\ u.id \notin Ids
             /\ find_by_id(u.id) = Returned(NoId)
             /\ find_by_username(u.username) \in
                  {Returned(v) : v \in {NoId} \cup (Persistent \ {result.obj})}
             /\ find_by_email(u.email) \in
                  {Returned(v) : v \in {NoId} \cup (Persistent \ {result.obj})}
             /\ "delete" \in result.wrote
                  => /\ find_by_username(u.username) = Returned(NoId)
                     /\ find_by_email(u.email) = Returned(NoId)

\* a user deleted before was deleted again after another user, saved twice,
\* had taken its username: the lookup on the username returns that user
C7_Witness ==
  /\ result.op = "delete_from_db"
  /\ result.outcome = "ok"
  /\ "delete" \notin result.wrote
  /\ \E v \in Persistent \ {result.obj} :
       /\ find_by_username(objs[result.obj].username) = Returned(v)
       /\ check_password(objs[v], 2) = Returned(TRUE)

\* C8: get_all_representatives completes and returns the persisted users that
\* represent an Organization.
C8_RepresentativesListed ==
  /\ get_all_representatives.outcome = "ok"
  /\ get_all_representatives.value =
       {o \in Persistent : organization(objs[o]) # PyNone}

\* C9: a save_to_db of a user that conflicts with a different persisted user
\* raises and leaves the users table as it was; a save_to_db of any other user
\* succeeds and persists nobody else.
C9_RejectedSaveLeavesSessionUsable ==
  [][(result'.op = "save_to_db"
        /\ objs[result'.obj].st \in {"transient", "pending", "persistent"})
       => IF Conflicts(objs[result'.obj])
          THEN result'.outcome # "ok" /\ db' = db
          ELSE /\ result'.outcome = "ok"
               /\ \A r \in db' :
                    r.id \in Ids \/ r.id = objs'[result'.obj].id]_vars

\* C10: every key of the object json() returns carries the attribute of the
\* same name.
C10_JsonMirrorsColumns ==
  \A o \in Built :
    LET u == objs[o]
        j == json(u)
    IN (u.st # "deleted" /\ j.outcome = "ok")
         => /\ j.value.id = u.id
            /\ j.value.username = u.username
            /\ j.value.password_hash = attr_password_hash(u).value
            /\ j.value.email = u.email
            /\ j.value.is_admin = u.is_admin
            /\ j.value.current_organization = u.current_organization
====
